---- MODULE Spec2Model ----
(***************************************************************************)
(* Minilink URL shortener: the HTTP handlers of src/routes/urlRoutes.ts    *)
(* and src/routes/userRoutes.ts over the PostgreSQL tables users, urls and *)
(* clicks of db/models/schema.ts.                                          *)
(*                                                                         *)
(* Every request is a process.  A handler runs as a chain of steps; each   *)
(* step is one SQL statement (atomic in the database) together with the    *)
(* JavaScript continuation that follows its await.  Steps of different     *)
(* requests interleave freely.                                             *)
(***************************************************************************)
EXTENDS Integers, Sequences, FiniteSets, TLC

\* ------------------------------------------------------------------ bounds

\* Number of requests received in one behaviour.
MaxReqs == 4

\* Number of requests that may be in flight at the same time.
MaxInFlight == 2

\* The slots a request runs in; a slot is taken again once its request is done.
Reqs == 1..MaxInFlight

\* ------------------------------------------------------------------ values

\* SQL NULL / JavaScript null for a nullable column, and a present value.
Null == <<>>
Some(v) == <<v>>

\* crypto.randomBytes(4): the byte strings a draw may return (a sample of the
\* 2^32 possible ones, small so that two draws can collide).
ShortIdBytes == 4
RandomBytesChoices == { <<222, 173, 190, 239>>, <<0, 15, 16, 255>> }

HexDigits == <<"0", "1", "2", "3", "4", "5", "6", "7",
               "8", "9", "a", "b", "c", "d", "e", "f">>

\* A hex encoding that drops the leading zero of a byte below 16.
RECURSIVE HexEncodeUnpadded(_)
HexEncodeUnpadded(bytes) ==
  IF bytes = <<>> THEN <<>>
  ELSE (IF Head(bytes) < 16
          THEN <<HexDigits[Head(bytes) + 1]>>
          ELSE <<HexDigits[(Head(bytes) \div 16) + 1],
                 HexDigits[(Head(bytes) % 16) + 1]>>)
       \o HexEncodeUnpadded(Tail(bytes))

\* Buffer.toString('hex'): two lower-case hex digits per byte.
HexEncode(bytes) ==
  [i \in 1..(2 * Len(bytes)) |->
     IF i % 2 = 1 THEN HexDigits[(bytes[(i + 1) \div 2] \div 16) + 1]
                  ELSE HexDigits[(bytes[i \div 2] % 16) + 1]]

\* request.protocol and request.hostname (the Host header of the request).
Protocol == <<"h", "t", "t", "p">>
Hostnames == { <<"m", ".", "l", "k">> }

\* `${request.protocol}://${request.hostname}/${shortId}`
MakeShortUrl(protocol, hostname, shortId) ==
  protocol \o <<":", "/", "/">> \o hostname \o <<"/">> \o shortId

\* Request inputs.  "" is an absent (falsy) field.
OriginalUrls == { "https://a.example/", "https://b.example/" }
UserIds == { "u1", "u2" }
Emails == { "ann@x.io", "bob@x.io" }
PathIds == { HexEncode(b) : b \in RandomBytesChoices }

\* ------------------------------------------------------------------ state

VARIABLES
  users,    \* table users:  set of rows [id, email]
  urls,     \* table urls:   set of rows [id, originalUrl, shortUrl, userId]
  clicks,   \* table clicks: set of rows [id, urlId, clickCount, lastClickedAt]
  req,      \* req[r]: the handler invocation running (or last run) in slot r
  nreq,     \* the number of requests received so far
  log       \* log[s]: the redirect requests for short ID s that found its row
            \* and have answered, and how many of them answered 302

vars == <<users, urls, clicks, req, nreq, log>>

NoRow == [id |-> <<>>, originalUrl |-> "", shortUrl |-> <<>>, userId |-> ""]

Idle ==
  [kind |-> "idle", pc |-> "idle", originalUrl |-> "", userId |-> "",
   email |-> "", shortId |-> <<>>, shortUrl |-> <<>>, urlRecord |-> NoRow,
   at |-> 0, raced |-> FALSE, err |-> "none", status |-> 0, body |-> <<>>]

Init ==
  /\ users = {}
  /\ urls = {}
  /\ clicks = {}
  /\ req = [r \in Reqs |-> Idle]
  /\ nreq = 0
  /\ log = [s \in PathIds |-> [answered |-> 0, redirected |-> 0]]

InFlight == { r \in Reqs : req[r].pc \notin {"idle", "done"} }

\* new Date(): a logical clock that ticks as each request is received.
Now == nreq

\* A request is received into the first slot that runs none.
CanStart(r) ==
  /\ nreq < MaxReqs
  /\ r \notin InFlight
  /\ \A q \in Reqs : q < r => q \in InFlight

\* The record of a request as it enters its handler.
Begin(kind, pc) == [Idle EXCEPT !.kind = kind, !.pc = pc]

\* The requests of the same kind that are in flight with the same key and have
\* not run their insert yet, as request r runs its own: its concurrent rivals.
Rivals(r, key) ==
  { q \in Reqs \ {r} : /\ req[q].kind = req[r].kind
                       /\ req[q].pc = "insert"
                       /\ key[q] = key[r] }

\* The record of a request that has answered: what it was asked (its kind and
\* its key: the email, the short ID or the path parameter), what its statement
\* raised, and the response.
Done(rec, err, status, body) ==
  [Idle EXCEPT !.kind = rec.kind, !.pc = "done", !.email = rec.email,
               !.shortId = rec.shortId,
               !.userId = IF rec.kind = "userUrls" THEN rec.userId ELSE "",
               !.raced = rec.raced,
               !.err = err, !.status = status, !.body = body]

\* req after request r has answered; raced marks r and its rivals when r ran
\* its insert with rivals in flight.
Answer(r, rivals, err, status, body) ==
  [q \in Reqs |->
     IF q = r
       THEN Done([req[r] EXCEPT !.raced = @ \/ rivals # {}], err, status, body)
     ELSE IF q \in rivals THEN [req[q] EXCEPT !.raced = TRUE]
     ELSE req[q]]


\* ------------------------------------------------------------- the database

\* What a statement raises (the message of the PostgreSQL error), or NoError.
NoError == "none"
UniqueViolation == "duplicate key value violates unique constraint"
ForeignKeyViolation == "violates foreign key constraint"
NoConflictTarget ==
  "there is no unique or exclusion constraint matching the ON CONFLICT specification"

\* The columns of clicks that carry a unique index: the primary key alone
\* (url_id is declared with references() only).
ClicksUniqueColumns == { "id" }

\* An insert into a users table that lacks the unique index on email.
InsertUsersNoUnique(row) == [err |-> NoError, rows |-> users \cup {row}]

\* INSERT INTO users: users_email_unique rejects a second row with the email.
InsertUsers(row) ==
  IF \E u \in users : u.email = row.email
    THEN [err |-> UniqueViolation, rows |-> users]
    ELSE [err |-> NoError, rows |-> users \cup {row}]

\* An insert into urls that replaces the row it conflicts with.
InsertUrlsOverwrite(row) ==
  IF ~(\E u \in users : u.id = row.userId)
    THEN [err |-> ForeignKeyViolation, rows |-> urls]
    ELSE [err |-> NoError,
          rows |-> { u \in urls : u.id # row.id /\ u.shortUrl # row.shortUrl }
                     \cup {row}]

\* An insert into a urls table whose user_id lacks the foreign key.
InsertUrlsNoForeignKey(row) ==
  IF \E u \in urls : u.id = row.id \/ u.shortUrl = row.shortUrl
    THEN [err |-> UniqueViolation, rows |-> urls]
    ELSE [err |-> NoError, rows |-> urls \cup {row}]

\* INSERT INTO urls: the primary key on id, urls_short_url_unique, and the
\* foreign key user_id -> users.id (checked after the unique indexes).
InsertUrls(row) ==
  IF \E u \in urls : u.id = row.id
    THEN [err |-> UniqueViolation, rows |-> urls]
  ELSE IF \E u \in urls : u.shortUrl = row.shortUrl
    THEN [err |-> UniqueViolation, rows |-> urls]
  ELSE IF ~(\E u \in users : u.id = row.userId)
    THEN [err |-> ForeignKeyViolation, rows |-> urls]
  ELSE [err |-> NoError, rows |-> urls \cup {row}]

\* clicks.id: defaultRandom(), a fresh identifier (rows are never deleted).
NewClickId == Cardinality(clicks) + 1

\* INSERT INTO clicks ... ON CONFLICT (target) DO UPDATE SET
\*   click_count = click_count + 1, last_clicked_at = now.
\* PostgreSQL plans the statement only if target is covered by a unique
\* index; it then inserts, or updates the row that conflicts on target.
UpsertClicks(urlId, target, now) ==
  IF target \notin ClicksUniqueColumns
    THEN [err |-> NoConflictTarget, rows |-> clicks]
  ELSE IF ~(\E u \in urls : u.id = urlId)
    THEN [err |-> ForeignKeyViolation, rows |-> clicks]
  ELSE IF \E c \in clicks : c.urlId = urlId
    THEN [err |-> NoError,
          rows |-> { IF c.urlId = urlId
                       THEN [c EXCEPT !.clickCount = c.clickCount + 1,
                                      !.lastClickedAt = now]
                       ELSE c : c \in clicks }]
  ELSE [err |-> NoError,
        rows |-> clicks \cup { [id |-> NewClickId, urlId |-> urlId,
                                clickCount |-> 1, lastClickedAt |-> now] }]

\* A select from urls that has lost its where clause.
SelectUrlAny(shortId) == urls

\* SELECT * FROM urls WHERE id = shortId
SelectUrlById(shortId) == { u \in urls : u.id = shortId }

\* SELECT ... FROM urls LEFT JOIN clicks ON urls.id = clicks.url_id
\*   WHERE <the rows of urls in from>: one row per (url, click) pair, and one
\* with null click columns for a url without a click row.
LeftJoinClicks(from) ==
  UNION { IF \E c \in clicks : c.urlId = u.id
            THEN { [id |-> u.id, originalUrl |-> u.originalUrl,
                    shortUrl |-> u.shortUrl,
                    clickCount |-> Some(c.clickCount),
                    lastClickedAt |-> Some(c.lastClickedAt)]
                   : c \in { d \in clicks : d.urlId = u.id } }
            ELSE { [id |-> u.id, originalUrl |-> u.originalUrl,
                    shortUrl |-> u.shortUrl,
                    clickCount |-> Null, lastClickedAt |-> Null] }
          : u \in from }

\* error.message.includes('duplicate key')
IncludesDuplicateKey(message) == message = UniqueViolation

\* ------------------------------------------------------------- POST /users

\* users.id: defaultRandom(), an identifier no row has yet.  (When every
\* sample identifier is taken every email is taken too, and the insert fails
\* on the email whatever the identifier.)
FreshUserIds ==
  IF UserIds \subseteq { u.id : u \in users }
    THEN UserIds
    ELSE UserIds \ { u.id : u \in users }

StartCreateUser(r, email) ==
  /\ CanStart(r)
  /\ req' = [req EXCEPT ![r] = [Begin("createUser", "insert")
                                  EXCEPT !.email = email]]
  /\ nreq' = nreq + 1
  /\ UNCHANGED <<users, urls, clicks, log>>

\* A catch block that does not look for 'duplicate key' in the message.
CreateUserStatusNoConflict(err) == IF err = NoError THEN 201 ELSE 500

\* The status the handler answers for the outcome of its insert.
CreateUserStatus(err) ==
  IF err = NoError THEN 201
  ELSE IF IncludesDuplicateKey(err) THEN 409
  ELSE 500

CreateUserInsert(r) ==
  /\ req[r].kind = "createUser" /\ req[r].pc = "insert"
  /\ \E id \in FreshUserIds :
       LET row == [id |-> id, email |-> req[r].email]
           res == InsertUsers(row)
       IN /\ users' = res.rows
          /\ req' = Answer(r, Rivals(r, [q \in Reqs |-> req[q].email]),
                           res.err, CreateUserStatus(res.err),
                           IF res.err = NoError THEN row
                           ELSE [error |-> "error"])
  /\ UNCHANGED <<urls, clicks, nreq, log>>

\* ------------------------------------------------------------ POST /shorten

\* if (!originalUrl || !userId) return reply.status(400)
ShortenReject(r, originalUrl, userId) ==
  /\ CanStart(r)
  /\ originalUrl = "" \/ userId = ""
  /\ req' = [req EXCEPT ![r] =
                Done(Begin("shorten", "done"), NoError, 400,
                     [error |-> "Original URL and User ID are required."])]
  /\ nreq' = nreq + 1
  /\ UNCHANGED <<users, urls, clicks, log>>

StartShorten(r, originalUrl, userId, hostname, bytes) ==
  /\ CanStart(r)
  /\ ~(originalUrl = "" \/ userId = "")
  /\ LET shortId == HexEncode(bytes)
     IN req' = [req EXCEPT ![r] =
                  [Begin("shorten", "insert")
                     EXCEPT !.originalUrl = originalUrl,
                            !.userId = userId,
                            !.shortId = shortId,
                            !.shortUrl = MakeShortUrl(Protocol, hostname, shortId)]]
  /\ nreq' = nreq + 1
  /\ UNCHANGED <<users, urls, clicks, log>>

\* The status the handler answers for the outcome of its insert.
ShortenStatus(err) == IF err = NoError THEN 201 ELSE 500

ShortenInsert(r) ==
  /\ req[r].kind = "shorten" /\ req[r].pc = "insert"
  /\ LET row == [id |-> req[r].shortId, originalUrl |-> req[r].originalUrl,
                 shortUrl |-> req[r].shortUrl, userId |-> req[r].userId]
         res == InsertUrls(row)
     IN /\ urls' = res.rows
        /\ req' = Answer(r, Rivals(r, [q \in Reqs |-> req[q].shortId]),
                         res.err, ShortenStatus(res.err),
                         IF res.err = NoError
                           THEN [id |-> row.id,
                                 originalUrl |-> row.originalUrl,
                                 shortUrl |-> row.shortUrl]
                           ELSE [error |-> "Internal Server Error."])
  /\ UNCHANGED <<users, clicks, nreq, log>>

\* ------------------------------------------------------ GET /urls/:id/stats

\* The handler runs one statement and answers, so the request is one step:
\* const [urlWithStats] = await db.select(...).leftJoin(...).where(...);
\* the first row of the result, sent as it is, or 404 when there is none.
Stats(r, id) ==
  /\ CanStart(r)
  /\ LET rec == [Begin("stats", "select") EXCEPT !.shortId = id]
         rows == LeftJoinClicks(SelectUrlById(id))
     IN IF rows = {}
          THEN req' = [req EXCEPT ![r] =
                         Done(rec, NoError, 404, [error |-> "URL not found"])]
          ELSE \E urlWithStats \in rows :
                 req' = [req EXCEPT ![r] = Done(rec, NoError, 200, urlWithStats)]
  /\ nreq' = nreq + 1
  /\ UNCHANGED <<users, urls, clicks, log>>

\* ------------------------------------------------------------ GET /:shortId

\* The request is received and its first statement runs:
\* const [urlRecord] = await db.select().from(urls).where(eq(urls.id, shortId));
\* with a row the handler builds the upsert (new Date() is taken here),
\* without one it answers 404.
RedirectLookup(r, shortId) ==
  /\ CanStart(r)
  /\ LET rec == [Begin("redirect", "lookup") EXCEPT !.shortId = shortId]
         rows == SelectUrlById(shortId)
     IN IF rows = {}
          THEN req' = [req EXCEPT ![r] =
                         Done(rec, NoError, 404,
                              [message |-> "Shortened URL not found."])]
          ELSE \E urlRecord \in rows :
                 req' = [req EXCEPT ![r] =
                           [rec EXCEPT !.pc = "upsert",
                                       !.urlRecord = urlRecord,
                                       !.at = Now + 1]]
  /\ nreq' = nreq + 1
  /\ UNCHANGED <<users, urls, clicks, log>>

\* A click statement without its onConflictDoUpdate clause: a plain insert.
RedirectClickPlainInsert(urlRecord, now) ==
  [err |-> NoError,
   rows |-> clicks \cup { [id |-> NewClickId, urlId |-> urlRecord.id,
                           clickCount |-> 1, lastClickedAt |-> now] }]

\* The statement the handler runs to count the click:
\* db.insert(clicks).values({urlId, clickCount: 1, lastClickedAt})
\*   .onConflictDoUpdate({target: [clicks.urlId], set: {...}})
RedirectClickStatement(urlRecord, now) ==
  UpsertClicks(urlRecord.id, "url_id", now)

\* A handler that redirects whatever became of its click statement.
RedirectStatusAlways302(err) == 302

\* The status the handler answers for the outcome of its click statement:
\* reply.redirect() after the await, or the catch block's 500.
RedirectStatus(err) == IF err = NoError THEN 302 ELSE 500

\* The upsert, then reply.redirect(urlRecord.originalUrl); a failed upsert
\* lands in the catch block, which answers 500.
RedirectUpsert(r) ==
  /\ req[r].kind = "redirect" /\ req[r].pc = "upsert"
  /\ LET res == RedirectClickStatement(req[r].urlRecord, req[r].at)
         status == RedirectStatus(res.err)
     IN /\ clicks' = res.rows
        /\ req' = Answer(r, {}, res.err, status,
                         IF status = 302
                           THEN [location |-> req[r].urlRecord.originalUrl]
                           ELSE [error |-> "Internal Server Error"])
        /\ log' = [log EXCEPT
                     ![req[r].shortId].answered = @ + 1,
                     ![req[r].shortId].redirected =
                       IF status = 302 THEN @ + 1 ELSE @]
  /\ UNCHANGED <<users, urls, nreq>>

\* ----------------------------------------------------- GET /users/:userId/urls

\* The request is received and its first statement runs:
\* const [user] = await db.select().from(users).where(eq(users.id, userId));
UserUrlsSelectUser(r, userId) ==
  /\ CanStart(r)
  /\ LET rec == [Begin("userUrls", "selectUser") EXCEPT !.userId = userId]
     IN IF \E u \in users : u.id = userId
          THEN req' = [req EXCEPT ![r] = [rec EXCEPT !.pc = "selectUrls"]]
          ELSE req' = [req EXCEPT ![r] =
                         Done(rec, NoError, 404, [error |-> "User not found"])]
  /\ nreq' = nreq + 1
  /\ UNCHANGED <<users, urls, clicks, log>>

\* One element of the answer: the click columns nested under clicks.
UserUrlRow(row) ==
  [id |-> row.id, originalUrl |-> row.originalUrl, shortUrl |-> row.shortUrl,
   clicks |-> [clickCount |-> row.clickCount,
               lastClickedAt |-> row.lastClickedAt]]

\* A listing that has lost its where clause.
SelectUrlsAnyUser(userId) == urls

\* ... FROM urls ... WHERE urls.user_id = userId
SelectUrlsByUser(userId) == { u \in urls : u.userId = userId }

\* const userUrls = await db.select(...).from(urls).leftJoin(clicks, ...)
\*   .where(eq(urls.userId, userId)); the answer is the array of these rows
\* (held as a set: its order is the database's choice).
UserUrlsSelectUrls(r) ==
  /\ req[r].kind = "userUrls" /\ req[r].pc = "selectUrls"
  /\ LET rows == LeftJoinClicks(SelectUrlsByUser(req[r].userId))
     IN req' = Answer(r, {}, NoError, 200, { UserUrlRow(row) : row \in rows })
  /\ UNCHANGED <<users, urls, clicks, nreq, log>>

\* ------------------------------------------------------------ specification

Next ==
  \E r \in Reqs :
    \/ \E email \in Emails : StartCreateUser(r, email)
    \/ CreateUserInsert(r)
    \/ \E o \in OriginalUrls \cup {""}, u \in UserIds \cup {""} :
         ShortenReject(r, o, u)
    \/ \E o \in OriginalUrls, u \in UserIds, h \in Hostnames,
          b \in RandomBytesChoices : StartShorten(r, o, u, h, b)
    \/ ShortenInsert(r)
    \/ \E id \in PathIds : Stats(r, id)
    \/ \E id \in PathIds : RedirectLookup(r, id)
    \/ RedirectUpsert(r)
    \/ \E u \in UserIds : UserUrlsSelectUser(r, u)
    \/ UserUrlsSelectUrls(r)

Spec == Init /\ [][Next]_vars

\* ------------------------------------------------------------ vocabulary

UrlRows(s) == { u \in urls : u.id = s }
ClickRows(s) == { c \in clicks : c.urlId = s }

\* Request r, a request of this kind at pc, has just run its step (a rival's
\* step changes nothing of r but raced).
Ran(r, kind, pc) ==
  /\ req[r].kind = kind /\ req[r].pc = pc
  /\ [req'[r] EXCEPT !.raced = req[r].raced] # req[r]

\* Request r has just been received as a request of this kind, and has run
\* its first statement.
Received(r, kind) ==
  /\ nreq' = nreq + 1
  /\ req'[r] # req[r]
  /\ req'[r].kind = kind

\* The short ID or the short URL of request r is in the urls table.
Collides(r) ==
  \E u \in urls : u.id = req[r].shortId \/ u.shortUrl = req[r].shortUrl

\* sub occurs in seq as a contiguous piece.
Contains(seq, sub) ==
  \E i \in 0..(Len(seq) - Len(sub)) : SubSeq(seq, i + 1, i + Len(sub)) = sub

\* ------------------------------------------------------------------- C1

\* C1 (as the specification states it): for an existing short ID, once every
\* redirect request to it has answered, however their lookups and upserts
\* interleaved, its click row counts exactly the redirect requests that ran.
C1_ConcurrentRedirectsAllCounted ==
  \A s \in PathIds :
    ( /\ log[s].answered >= 1
      /\ ~(\E r \in Reqs : /\ req[r].kind = "redirect" /\ req[r].pc = "upsert"
                           /\ req[r].shortId = s) )
    => /\ Cardinality(ClickRows(s)) = 1
       /\ \A c \in ClickRows(s) : c.clickCount = log[s].answered

\* ------------------------------------------------------------------- C2

\* C2 (as the specification states it): the redirect that finds no click row
\* for its URL creates one with clickCount 1 and its own time; a redirect that
\* finds one adds exactly 1 to clickCount and sets lastClickedAt to its own time.
C2_RedirectCountsAndStamps ==
  [][ \A r \in Reqs :
        Ran(r, "redirect", "upsert") =>
          LET s == req[r].shortId
          IN IF ClickRows(s) = {}
               THEN ClickRows(s)' =
                      { c \in clicks' : /\ c.urlId = s /\ c.clickCount = 1
                                        /\ c.lastClickedAt = req[r].at }
                    /\ Cardinality(ClickRows(s)') = 1
               ELSE \A c \in ClickRows(s) :
                      \E d \in ClickRows(s)' :
                        /\ d.id = c.id
                        /\ d.clickCount = c.clickCount + 1
                        /\ d.lastClickedAt = req[r].at ]_vars

\* ------------------------------------------------------------------- C3

\* C3 (as the specification states it): a redirect that finds the row a
\* shorten request stored answers 302 with that row's original URL as its
\* location, and no step changes or removes a stored URL row.
C3_RoundTrip ==
  [][ /\ \A u \in urls : u \in urls'
      /\ \A r \in Reqs :
           Ran(r, "redirect", "upsert") =>
             /\ req'[r].status = 302
             /\ \E u \in UrlRows(req[r].shortId) :
                  req'[r].body = [location |-> u.originalUrl] ]_vars

\* ------------------------------------------------------------------- C4

\* C4: a redirect request for a short ID that has no URL row answers 404 at
\* once and leaves the tables clicks, urls and users as they were.
C4_UnknownShortIdIs404 ==
  [][ \A r \in Reqs :
        (Received(r, "redirect") /\ UrlRows(req'[r].shortId) = {}) =>
          /\ req'[r].pc = "done"
          /\ req'[r].status = 404
          /\ UNCHANGED <<users, urls, clicks>> ]_vars

\* A redirect for a short ID without a row has answered, while another short
\* ID has a row.
C4_Witness ==
  \E r \in Reqs :
    /\ req[r].kind = "redirect" /\ req[r].pc = "done" /\ req[r].status = 404
    /\ UrlRows(req[r].shortId) = {}
    /\ urls # {}

\* ------------------------------------------------------------------- C5

NoSharedEmail == \A u, v \in users : u.email = v.email => u = v

\* C5: creating a user with an email that some user row already has answers
\* 409 and leaves the users table as it was; so no two user rows ever share
\* an email.
C5_DuplicateEmailIs409 ==
  [][ /\ \A r \in Reqs :
           ( /\ Ran(r, "createUser", "insert")
             /\ \E u \in users : u.email = req[r].email )
           => /\ req'[r].pc = "done"
              /\ req'[r].status = 409
              /\ users' = users
      /\ NoSharedEmail' ]_vars

\* A create request for a registered email has answered 409.
C5_Witness ==
  \E r \in Reqs :
    /\ req[r].kind = "createUser" /\ req[r].pc = "done"
    /\ req[r].status = 409
    /\ \E u \in users : u.email = req[r].email

\* ------------------------------------------------------------------- C6

\* C6 (as the specification states it): a create request that loses a race on
\* a unique key (an email, or a drawn short ID) receives a conflict error (409).
C6_LoserGetsConflictError ==
  \A r \in Reqs :
    ( /\ req[r].kind \in {"createUser", "shorten"} /\ req[r].pc = "done"
      /\ req[r].raced
      /\ req[r].err = UniqueViolation )
    => req[r].status = 409

NoSharedUrlKey ==
  \A u, v \in urls : (u.id = v.id \/ u.shortUrl = v.shortUrl) => u = v

\* C6 (amended): of the create requests in flight with the same unique key at
\* most one inserts a row and answers 201: the first to run its insert, if
\* the key is free (and, for a URL, its user exists).  Every other one inserts
\* nothing and answers an error: 409 for a user, 500 for a URL.
C6_OneWinnerLosersFail ==
  [][ /\ \A r \in Reqs :
           Ran(r, "createUser", "insert") =>
             /\ req'[r].pc = "done"
             /\ IF \E u \in users : u.email = req[r].email
                  THEN users' = users /\ req'[r].status = 409
                  ELSE /\ req'[r].status = 201
                       /\ \E id \in UserIds :
                            /\ ~(\E u \in users : u.id = id)
                            /\ users' = users \cup
                                 {[id |-> id, email |-> req[r].email]}
      /\ \A r \in Reqs :
           Ran(r, "shorten", "insert") =>
             /\ req'[r].pc = "done"
             /\ IF \/ Collides(r)
                   \/ ~(\E u \in users : u.id = req[r].userId)
                  THEN urls' = urls /\ req'[r].status = 500
                  ELSE /\ req'[r].status = 201
                       /\ urls' = urls \cup
                            {[id |-> req[r].shortId,
                              originalUrl |-> req[r].originalUrl,
                              shortUrl |-> req[r].shortUrl,
                              userId |-> req[r].userId]}
      /\ NoSharedEmail' /\ NoSharedUrlKey' ]_vars

\* Two shorten requests drew the same short ID and were in flight together:
\* one has answered 201, the other 500 on the unique violation.
C6_Witness ==
  \E r, q \in Reqs :
    /\ r # q
    /\ req[r].kind = "shorten" /\ req[q].kind = "shorten"
    /\ req[r].pc = "done" /\ req[q].pc = "done"
    /\ req[r].raced /\ req[q].raced
    /\ req[r].shortId = req[q].shortId
    /\ req[r].status = 201
    /\ req[q].status = 500 /\ req[q].err = UniqueViolation

\* ------------------------------------------------------------------- C7

\* C7 (as the specification states it): a shorten request whose short ID or
\* short URL is already stored fails with a conflict error, which is not the
\* internal error (500), makes no second attempt and changes no row.
C7_CollisionIsConflictError ==
  [][ \A r \in Reqs :
        (Ran(r, "shorten", "insert") /\ Collides(r)) =>
          /\ req'[r].pc = "done"
          /\ req'[r].status \notin {201, 500}
          /\ UNCHANGED <<users, urls, clicks>> ]_vars

\* C7 (amended): a shorten request whose short ID or short URL is already
\* stored answers 500 with the same Internal Server Error body as any other
\* failure of the insert, makes no second attempt and changes no row.
C7_CollisionIs500 ==
  [][ \A r \in Reqs :
        (Ran(r, "shorten", "insert") /\ Collides(r)) =>
          /\ req'[r].pc = "done"
          /\ req'[r].status = 500
          /\ req'[r].body = [error |-> "Internal Server Error."]
          /\ UNCHANGED <<users, urls, clicks>> ]_vars

\* A shorten request that drew a stored short ID has answered 500 on the
\* unique violation, and the row stored under that ID is still there.
C7_Witness ==
  \E r \in Reqs :
    /\ req[r].kind = "shorten" /\ req[r].pc = "done"
    /\ req[r].err = UniqueViolation
    /\ req[r].status = 500
    /\ UrlRows(req[r].shortId) # {}

\* ------------------------------------------------------------------- C8

\* C8 (as the specification states it): stats for an ID without a URL row
\* answer 404; for a URL without a click row they answer the URL's id,
\* originalUrl and shortUrl with clickCount 0 and lastClickedAt null; for a
\* URL with a click row they answer that row's clickCount and lastClickedAt.
C8_StatsOfUrl ==
  [][ \A r \in Reqs :
        Received(r, "stats") =>
          LET s == req'[r].shortId
          IN /\ req'[r].pc = "done"
             /\ IF UrlRows(s) = {}
                  THEN req'[r].status = 404
                ELSE /\ req'[r].status = 200
                     /\ \E u \in UrlRows(s) :
                          IF ClickRows(s) = {}
                            THEN req'[r].body =
                                   [id |-> u.id, originalUrl |-> u.originalUrl,
                                    shortUrl |-> u.shortUrl,
                                    clickCount |-> Some(0),
                                    lastClickedAt |-> Null]
                            ELSE \E c \in ClickRows(s) :
                                   req'[r].body =
                                     [id |-> u.id,
                                      originalUrl |-> u.originalUrl,
                                      shortUrl |-> u.shortUrl,
                                      clickCount |-> Some(c.clickCount),
                                      lastClickedAt |-> Some(c.lastClickedAt)]
    ]_vars

\* ------------------------------------------------------------------- C9

\* C9: in every reachable state the clicks table holds at most one row per
\* URL, and every click row references a row of urls.
C9_OneClickRowPerUrl ==
  /\ \A c, d \in clicks : c.urlId = d.urlId => c = d
  /\ \A c \in clicks : UrlRows(c.urlId) # {}

\* Two redirect requests for the same stored short ID have run their click
\* statement and answered.
C9_Witness ==
  \E s \in PathIds : UrlRows(s) # {} /\ log[s].answered >= 2

\* ------------------------------------------------------------------ C10

\* C10: a shorten request that answers 201 returns an id of exactly 8
\* characters and a shortUrl that contains it, and adds to urls exactly one
\* row, with these values; all rows of urls have distinct ids of 8 characters
\* and distinct shortUrl values.
C10_ShortenStoresOneRow ==
  [][ /\ \A r \in Reqs :
           (Ran(r, "shorten", "insert") /\ req'[r].status = 201) =>
             LET b == req'[r].body
             IN /\ Len(b.id) = 2 * ShortIdBytes
                /\ Contains(b.shortUrl, b.id)
                /\ b.originalUrl = req[r].originalUrl
                /\ \E row \in urls' :
                     /\ row \notin urls
                     /\ urls' = urls \cup {row}
                     /\ row.id = b.id /\ row.shortUrl = b.shortUrl
                     /\ row.originalUrl = b.originalUrl
      /\ NoSharedUrlKey'
      /\ \A u \in urls' : Len(u.id) = 2 * ShortIdBytes ]_vars

\* A shorten request has answered 201 and urls holds two rows.
C10_Witness ==
  /\ Cardinality(urls) = 2
  /\ \E r \in Reqs :
       /\ req[r].kind = "shorten" /\ req[r].pc = "done" /\ req[r].status = 201

\* ------------------------------------------------------------------ C11

\* The element the listing holds for URL row u: its id, originalUrl and
\* shortUrl with the click statistics of click row c.
ListedWith(u, c) ==
  [id |-> u.id, originalUrl |-> u.originalUrl, shortUrl |-> u.shortUrl,
   clicks |-> [clickCount |-> Some(c.clickCount),
               lastClickedAt |-> Some(c.lastClickedAt)]]

\* The element the listing holds for a URL row u that has no click row.
ListedBare(u) ==
  [id |-> u.id, originalUrl |-> u.originalUrl, shortUrl |-> u.shortUrl,
   clicks |-> [clickCount |-> Null, lastClickedAt |-> Null]]

C12_UnknownUserFails ==
  [][ /\ \A r \in Reqs :
           ( /\ Ran(r, "shorten", "insert")
             /\ ~(\E u \in users : u.id = req[r].userId) )
           => /\ req'[r].pc = "done"
              /\ req'[r].status = 500
              /\ urls' = urls
      /\ \A u \in urls' : \E v \in users' : v.id = u.userId ]_vars

\* A shorten request has answered 500 on the foreign-key violation.
C12_Witness ==
  \E r \in Reqs :
    /\ req[r].kind = "shorten" /\ req[r].pc = "done"
    /\ req[r].err = ForeignKeyViolation
    /\ req[r].status = 500

\* ------------------------------------------------------------------ C13

\* The clickCount of the URL with short ID s: that of its click row, 0
\* without one.
ClickCount(s) ==
  IF ClickRows(s) = {} THEN 0 ELSE (CHOOSE c \in ClickRows(s) : TRUE).clickCount

RedirectInFlight ==
  \E r \in Reqs : req[r].kind = "redirect" /\ req[r].pc = "upsert"

\* C13: a redirect request that finds its row answers nothing before its
\* click upsert has run; it answers 302 only if the upsert succeeded and
\* counted the click, and 500 without a redirect, the click rows untouched,
\* if the upsert failed.  So whenever no redirect is in flight the clickCount
\* of a URL is the number of 302 answers for its short ID.
C13_RedirectOnlyAfterUpsert ==
  [][ /\ \A r \in Reqs :
           /\ (Received(r, "redirect") /\ UrlRows(req'[r].shortId) # {}) =>
                /\ req'[r].pc = "upsert" /\ req'[r].status = 0
                /\ clicks' = clicks
           /\ Ran(r, "redirect", "upsert") =>
                LET s == req[r].shortId
                IN /\ req'[r].pc = "done"
                   /\ req'[r].status \in {302, 500}
                   /\ req'[r].status = 302 =>
                        /\ req'[r].err = NoError
                        /\ ClickCount(s)' = ClickCount(s) + 1
                        /\ log'[s].redirected = log[s].redirected + 1
                   /\ req'[r].err # NoError =>
                        /\ req'[r].status = 500
                        /\ req'[r].body = [error |-> "Internal Server Error"]
                        /\ clicks' = clicks
                        /\ log'[s].redirected = log[s].redirected
      /\ (~RedirectInFlight)' =>
           \A s \in PathIds : ClickCount(s)' = log'[s].redirected ]_vars

\* A redirect request found its row, its click upsert failed, and it has
\* answered 500: no 302 is counted for the short ID and no click either.
C13_Witness ==
  /\ ~RedirectInFlight
  /\ \E r \in Reqs :
       /\ req[r].kind = "redirect" /\ req[r].pc = "done"
       /\ req[r].err # NoError /\ req[r].status = 500
       /\ log[req[r].shortId].answered >= 1
       /\ log[req[r].shortId].redirected = 0
       /\ ClickCount(req[r].shortId) = 0

====
